---------------------------- MODULE Spec2Model ----------------------------
(***************************************************************************)
(* Model of the uni20 Python binding checks:                               *)
(*   tests/python/test_buildinfo.py, tests/python/test_greet.py and        *)
(*   examples/python_buildinfo_example.py.                                 *)
(*                                                                         *)
(* Python values are records tagged with their type; a dict is a function  *)
(* from key values to values.  unittest assertions are operators that      *)
(* yield the outcome of the test method at the first assertion that does   *)
(* not hold.                                                               *)
(***************************************************************************)
EXTENDS Integers, Sequences, FiniteSets, TLC

(* ------------------------------------------------------------------ *)
(* Bounds                                                              *)
(* ------------------------------------------------------------------ *)

\* How many single edits away from a well-formed BuildInfo the binding's
\* buildinfo() result may be when the test body is checked on its own.
MaxEdits == 2

\* The same distance for the whole-program runs of Spec.
LoadEdits == 1

(* ------------------------------------------------------------------ *)
(* Python values                                                       *)
(* ------------------------------------------------------------------ *)

Str(s) == [t |-> "str", s |-> s]

\* An int, held by its repr.
Int5 == [t |-> "int", s |-> "5"]

None == [t |-> "NoneType", s |-> "None"]

Bool(b) == [t |-> "bool", s |-> IF b THEN "True" ELSE "False"]

Type(name) == [t |-> "type", s |-> name]

Dict(f) == [t |-> "dict", d |-> f]

EmptyDict == Dict([k \in {} |-> None])

\* d[k] := v and del d[k] on a dict value.
DictSet(dict, k, v) ==
    Dict([x \in DOMAIN dict.d \cup {k} |-> IF x = k THEN v ELSE dict.d[x]])

DictDel(dict, k) == Dict([x \in DOMAIN dict.d \ {k} |-> dict.d[x]])

\* bool(v): the truth value Python gives v.
Truthy(v) ==
    CASE v.t = "dict" -> DOMAIN v.d # {}
      [] v.t = "str"  -> v.s # ""
      [] v.t = "int"  -> v.s # "0"
      [] v.t = "bool" -> v.s = "True"
      [] OTHER        -> FALSE

\* a or b
Or(a, b) == IF Truthy(a) THEN a ELSE b

IsInstance(v, cls) == v.t = cls

\* key in dict
In(k, dict) == dict.t = "dict" /\ k \in DOMAIN dict.d

\* dict.get(k)
Get(dict, k) == IF In(k, dict) THEN dict.d[k] ELSE None

\* The values a repr shows: a scalar shows itself, a dict its keys and the
\* values under them.
RECURSIVE Shown(_)
Shown(v) ==
    IF v.t = "dict"
    THEN UNION {Shown(k) \cup Shown(v.d[k]) : k \in DOMAIN v.d}
    ELSE {v}

(* ------------------------------------------------------------------ *)
(* unittest outcomes and assertions                                    *)
(* ------------------------------------------------------------------ *)

NotRun == [outcome |-> "none", line |-> 0, method |-> "", args |-> <<>>]

Pass == [outcome |-> "pass", line |-> 0, method |-> "", args |-> <<>>]

\* An AssertionError raised by `method` at `line`; args are the operands its
\* message shows.
Failure(line, method, args) ==
    [outcome |-> "fail", line |-> line, method |-> method, args |-> args]

\* Any other exception raised at `line`.
Error(line, exc) ==
    [outcome |-> "error", line |-> line, method |-> exc, args |-> <<>>]

\* Sequencing of statements: the first one that raises ends the method.
Then(r1, r2) == IF r1.outcome = "pass" THEN r2 ELSE r1

assertTrue(line, expr) ==
    IF Truthy(expr) THEN Pass ELSE Failure(line, "assertTrue", <<expr>>)

assertIsInstance(line, obj, cls) ==
    IF IsInstance(obj, cls) THEN Pass
    ELSE Failure(line, "assertIsInstance", <<obj, Type(cls)>>)

assertIn(line, member, container) ==
    IF container.t # "dict" THEN Error(line, "TypeError")
    ELSE IF member \in DOMAIN container.d THEN Pass
    ELSE Failure(line, "assertIn", <<member, container>>)

assertEqual(line, first, second) ==
    IF first = second THEN Pass
    ELSE Failure(line, "assertEqual", <<first, second>>)

\* dict[k] as a statement: KeyError when k is absent.
Subscript(line, dict, k) ==
    IF dict.t # "dict" THEN Error(line, "TypeError")
    ELSE IF k \in DOMAIN dict.d THEN Pass
    ELSE Error(line, "KeyError")

\* A for loop over a collection whose iteration order the program does not
\* fix (a set of str, a dict filled by the binding): the loop ends at the
\* first item whose body raises, and any item whose body raises can be
\* that one.
ForEach(bodies) ==
    IF bodies \ {Pass} = {} THEN {Pass} ELSE bodies \ {Pass}

\* The values shown by the message of a result.
MessageShows(r) == UNION {Shown(r.args[i]) : i \in DOMAIN r.args}

(* ------------------------------------------------------------------ *)
(* BuildInfoTests.test_buildinfo_reports_metadata                      *)
(* ------------------------------------------------------------------ *)

K(s) == Str(s)

expected_keys ==
    { K("generator"), K("build_type"), K("system_name"), K("system_version"),
      K("system_processor"), K("cxx_compiler_id"), K("cxx_compiler_version"),
      K("cxx_compiler_path") }

collections == <<K("build_options"), K("detected_environment")>>

\* Mutant: the key set must be exactly the required keys and collections.
CheckExpectedKeys_Exact(info) ==
    assertTrue(45, Bool(DOMAIN info.d =
                          expected_keys \cup {collections[1], collections[2]}))

\* self.assertTrue(expected_keys.issubset(info.keys()))
CheckExpectedKeys(info) ==
    assertTrue(45, Bool(expected_keys \subseteq DOMAIN info.d))

\* Mutant: the loop body without assertTrue(info[key]).
CheckRequired_NoTruthCheck(info, key) ==
    Then(Subscript(47, info, key),
         assertIsInstance(47, Get(info, key), "str"))

\* The body of `for key in expected_keys`.
CheckRequired(info, key) ==
    Then(Subscript(47, info, key),
    Then(assertIsInstance(47, Get(info, key), "str"),
         assertTrue(48, Get(info, key))))

\* Mutant: without assertTrue(info[collection]).
CheckCollection_NoEmptyCheck(info, collection) ==
    Then(assertIn(51, collection, info),
    Then(Subscript(52, info, collection),
         assertIsInstance(52, Get(info, collection), "dict")))

\* Mutant: without assertIn(collection, info).
CheckCollection_NoPresenceCheck(info, collection) ==
    Then(Subscript(52, info, collection),
    Then(assertIsInstance(52, Get(info, collection), "dict"),
         assertTrue(53, Get(info, collection))))

\* The first three statements of the body of `for collection in (...)`.
CheckCollection(info, collection) ==
    Then(assertIn(51, collection, info),
    Then(Subscript(52, info, collection),
    Then(assertIsInstance(52, Get(info, collection), "dict"),
         assertTrue(53, Get(info, collection)))))

\* Mutant: without the check of help's type.
CheckMetadata_NoHelpType(option_name, metadata) ==
    Then(assertIsInstance(56, option_name, "str"),
    Then(assertIsInstance(57, metadata, "dict"),
    Then(assertIn(58, K("value"), metadata),
    Then(assertIsInstance(59, Get(metadata, K("value")), "str"),
         assertTrue(60, Or(Get(metadata, K("value")),
                           Get(metadata, K("help"))))))))

\* The body of `for option_name, metadata in info[collection].items()`.
CheckMetadata(option_name, metadata) ==
    Then(assertIsInstance(56, option_name, "str"),
    Then(assertIsInstance(57, metadata, "dict"),
    Then(assertIn(58, K("value"), metadata),
    Then(assertIsInstance(59, Get(metadata, K("value")), "str"),
    Then(assertTrue(60, Or(Get(metadata, K("value")),
                           Get(metadata, K("help")))),
         IF In(K("help"), metadata)
         THEN assertIsInstance(62, Get(metadata, K("help")), "str")
         ELSE Pass)))))

\* One pass of `for collection in (...)`: the outcomes it can end with.
CollectionResults(info, collection) ==
    LET head == CheckCollection(info, collection)
        coll == Get(info, collection)
    IN  IF head # Pass THEN {head}
        ELSE ForEach({CheckMetadata(n, coll.d[n]) : n \in DOMAIN coll.d})

\* The outcomes the test method can end with on the value buildinfo()
\* returned.
TestResults(info) ==
    LET r32 == assertIsInstance(32, info, "dict")
    IN  IF r32 # Pass THEN {r32}
        ELSE IF CheckExpectedKeys(info) # Pass THEN {CheckExpectedKeys(info)}
        ELSE LET req == ForEach({CheckRequired(info, k) : k \in expected_keys})
                 bo  == CollectionResults(info, collections[1])
             IN  IF req # {Pass} THEN req
                 ELSE IF bo # {Pass} THEN bo
                 ELSE CollectionResults(info, collections[2])

(* ------------------------------------------------------------------ *)
(* What the binding's buildinfo() may return                           *)
(* ------------------------------------------------------------------ *)

\* A record of a build option: value and, optionally, help.
Record(value, help) == Dict((K("value") :> value) @@ (K("help") :> help))

\* A well-formed BuildInfo.
BaseInfo ==
    Dict( (K("generator") :> Str("Ninja"))
       @@ (K("build_type") :> Str("Release"))
       @@ (K("system_name") :> Str("Linux"))
       @@ (K("system_version") :> Str("6.1"))
       @@ (K("system_processor") :> Str("x86_64"))
       @@ (K("cxx_compiler_id") :> Str("GNU"))
       @@ (K("cxx_compiler_version") :> Str("13.2"))
       @@ (K("cxx_compiler_path") :> Str("/usr/bin/c++"))
       @@ (K("build_options") :>
             Dict(K("UNI20_BUILD_PYTHON") :>
                    DictDel(Record(Str("ON"), None), K("help"))))
       @@ (K("detected_environment") :>
             Dict(K("CXX") :> Record(Str(""), Str("C++ compiler")))) )

\* The records one edit away from a record.
RecordEdits(m) ==
    {DictSet(m, f, v) : f \in {K("value"), K("help")},
                        v \in {Str(""), Str("x"), Int5, None}}
    \cup {DictDel(m, f) : f \in DOMAIN m.d \cap {K("value"), K("help")}}
    \cup {DictSet(m, K("note"), Int5)}

\* The option mappings one edit away from an option mapping.
CollectionEdits(coll) ==
    {DictSet(coll, n, DictDel(Record(Str("1"), None), K("help"))) :
        n \in {K("EXTRA_OPT"), Int5} \ DOMAIN coll.d}
    \cup {DictSet(coll, n, Int5) : n \in DOMAIN coll.d}
    \cup {DictDel(coll, n) : n \in DOMAIN coll.d}
    \cup UNION {{DictSet(coll, n, m) : m \in RecordEdits(coll.d[n])} :
                  n \in {x \in DOMAIN coll.d : coll.d[x].t = "dict"}}

\* The values one edit away from a BuildInfo.
InfoEdits(info) ==
    IF info.t # "dict" THEN {}
    ELSE {None}
      \cup {DictSet(info, k, v) : k \in expected_keys, v \in {Str(""), Int5}}
      \cup {DictDel(info, k) :
              k \in DOMAIN info.d \cap
                    (expected_keys \cup {collections[1], collections[2]})}
      \cup {DictSet(info, c, v) : c \in {collections[1], collections[2]},
                                  v \in {Int5, EmptyDict}}
      \cup {DictSet(info, K("uni20_version"), Int5)}
      \cup UNION {{DictSet(info, c, coll) : coll \in CollectionEdits(info.d[c])} :
                    c \in {x \in DOMAIN info.d \cap
                                 {collections[1], collections[2]} :
                             info.d[x].t = "dict"}}

\* The values at most n edits away from the well-formed BuildInfo.
RECURSIVE Infos(_)
Infos(n) ==
    IF n = 0 THEN {BaseInfo}
    ELSE LET prev == Infos(n - 1)
         IN  prev \cup UNION {InfoEdits(i) : i \in prev}

\* What greet() may return.
GreetValues ==
    { Str("Hello from uni20!"), Str("hello from uni20!"),
      Str("Hello from uni20! "), Str("Hello from uni20"), Str(""),
      None, Int5 }

(* ------------------------------------------------------------------ *)
(* The process: arguments, module search path, file system            *)
(* ------------------------------------------------------------------ *)

VARIABLES
    prog,           \* the script that is run
    sys_argv,       \* sys.argv
    sys_path,       \* sys.path
    fs,             \* the modules each directory holds
    pc,             \* where the script is
    exc,            \* the exception being raised, "" when none
    attempted,      \* whether an import statement has been executed
    module,         \* the imported binding: its name and where it was found
    ret,            \* what the binding's entry point returned
    result,         \* how the run ended
    initial_argv,   \* sys.argv at start
    initial_path    \* sys.path at start

vars == <<prog, sys_argv, sys_path, fs, pc, exc, attempted, module, ret,
          result, initial_argv, initial_path>>

Tests == {"test_buildinfo", "test_greet"}

Programs == Tests \cup {"example"}

Modules == {"uni20", "uni20_python"}

\* Mutant: the example imports the name the greet test imports.
ModuleName_ExampleDiffers(p) ==
    IF p = "test_buildinfo" THEN "uni20" ELSE "uni20_python"

\* The name each script imports.
ModuleName(p) ==
    CASE p = "test_buildinfo" -> "uni20"
      [] p = "test_greet"     -> "uni20_python"
      [] p = "example"        -> "uni20"

\* sys.path[0] at start: the directory of the script.
ScriptDir(p) == IF p = "example" THEN "/w/examples" ELSE "/w/tests/python"

\* The directory arguments tried; the working directory is /w and /w/link
\* is a symbolic link to /w/build.
DirArgs == {"build", "/w/build", "/w/link"}

\* pathlib.Path(arg).resolve(), as a string.
Resolve(arg) ==
    CASE arg = "build"   -> "/w/build"
      [] arg = "/w/link" -> "/w/build"
      [] OTHER           -> arg

Directories == {"/w/build", "/w/examples", "/w/tests/python", "/site"}

NoModule == [name |-> "", dir |-> ""]

\* The import system's search: the first directory of the path that holds
\* the module.
FindModule(name, path, files) ==
    LET hits == {i \in 1..Len(path) : name \in files[path[i]]}
    IN  IF hits = {} THEN NoModule
        ELSE [name |-> name,
              dir |-> path[CHOOSE i \in hits : \A j \in hits : i <= j]]

\* Mutant: sys.path.append(str(bindings_dir)).
InsertFront_Append(path, dir) == path \o <<dir>>

\* sys.path.insert(0, str(bindings_dir))
InsertFront(path, dir) == <<dir>> \o path

\* Mutant: only the directory argument is removed.
TruncateArgv_DropDirOnly(argv) == <<argv[1]>> \o SubSeq(argv, 3, Len(argv))

\* sys.argv = [sys.argv[0]]
TruncateArgv(argv) == <<argv[1]>>

Init ==
    /\ prog \in Programs
    /\ \E d \in DirArgs :
          sys_argv \in {<<prog>>, <<prog, d>>, <<prog, d, "-v">>}
    /\ sys_path = <<ScriptDir(prog), "/site">>
    /\ \E build \in SUBSET Modules, site \in {{}, Modules} :
          fs = [d \in Directories |->
                  CASE d = "/w/build" -> build
                    [] d = "/site"    -> site
                    [] OTHER          -> {}]
    /\ pc = "check"
    /\ exc = ""
    /\ attempted = FALSE
    /\ module = NoModule
    /\ ret = None
    /\ result = NotRun
    /\ initial_argv = sys_argv
    /\ initial_path = sys_path

(* ------------------------------------------------------------------ *)
(* _load_module of the two test scripts                                *)
(* ------------------------------------------------------------------ *)

\* if len(sys.argv) < 2: raise unittest.SkipTest(...)
load_module_check ==
    /\ prog \in Tests
    /\ pc = "check"
    /\ IF Len(sys_argv) < 2
       THEN exc' = "SkipTest" /\ pc' = "raised"
       ELSE exc' = exc /\ pc' = "insert"
    /\ UNCHANGED <<prog, sys_argv, sys_path, fs, attempted, module, ret,
                   result, initial_argv, initial_path>>

\* bindings_dir = pathlib.Path(sys.argv[1]).resolve()
\* sys.path.insert(0, str(bindings_dir))
load_module_insert ==
    /\ prog \in Tests
    /\ pc = "insert"
    /\ sys_path' = InsertFront(sys_path, Resolve(sys_argv[2]))
    /\ pc' = "truncate"
    /\ UNCHANGED <<prog, sys_argv, fs, exc, attempted, module, ret, result,
                   initial_argv, initial_path>>

\* sys.argv = [sys.argv[0]]
load_module_truncate ==
    /\ prog \in Tests
    /\ pc = "truncate"
    /\ sys_argv' = TruncateArgv(sys_argv)
    /\ pc' = "import"
    /\ UNCHANGED <<prog, sys_path, fs, exc, attempted, module, ret, result,
                   initial_argv, initial_path>>

\* return importlib.import_module(<name>)
load_module_import ==
    /\ prog \in Tests
    /\ pc = "import"
    /\ attempted' = TRUE
    /\ LET found == FindModule(ModuleName(prog), sys_path, fs)
       IN  IF found = NoModule
           THEN /\ exc' = "ModuleNotFoundError"
                /\ pc' = "raised"
                /\ module' = module
           ELSE /\ exc' = exc
                /\ pc' = "tests"
                /\ module' = found
    /\ UNCHANGED <<prog, sys_argv, sys_path, fs, ret, result, initial_argv,
                   initial_path>>

\* An exception raised while the script's own top-level statements run
\* (_UNI20_MODULE = _load_module(), or main()) has no handler: the
\* interpreter prints the traceback and the process ends with status 1,
\* before unittest.main() is reached.
TopLevelOutcome(p, exception) ==
    Error(IF p = "example" THEN 26 ELSE 23, exception)

uncaught ==
    /\ pc = "raised"
    /\ result' = TopLevelOutcome(prog, exc)
    /\ pc' = "exit"
    /\ UNCHANGED <<prog, sys_argv, sys_path, fs, exc, attempted, module, ret,
                   initial_argv, initial_path>>

(* ------------------------------------------------------------------ *)
(* The test methods, run by unittest.main()                            *)
(* ------------------------------------------------------------------ *)

\* Mutant: any non-empty string is taken for the greeting.
GreetResult_AnyString(value) ==
    Then(assertIsInstance(30, value, "str"), assertTrue(30, value))

\* self.assertEqual(_UNI20_MODULE.greet(), "Hello from uni20!")
GreetResult(value) == assertEqual(30, value, Str("Hello from uni20!"))

test_greet_returns_expected_message ==
    /\ prog = "test_greet"
    /\ pc = "tests"
    /\ \E v \in GreetValues :
          /\ ret' = v
          /\ result' = GreetResult(v)
    /\ pc' = "exit"
    /\ UNCHANGED <<prog, sys_argv, sys_path, fs, exc, attempted, module,
                   initial_argv, initial_path>>

\* info = _UNI20_MODULE.buildinfo() and the assertions on it, with info at
\* most n edits away from the well-formed BuildInfo.
BuildInfoTest(n) ==
    /\ prog = "test_buildinfo"
    /\ pc = "tests"
    /\ \E i \in Infos(n - 1) : \E info \in {i} \cup InfoEdits(i) :
          /\ ret' = info
          /\ result' \in TestResults(info)
    /\ pc' = "exit"
    /\ UNCHANGED <<prog, sys_argv, sys_path, fs, exc, attempted, module,
                   initial_argv, initial_path>>

test_buildinfo_reports_metadata == BuildInfoTest(LoadEdits)

(* ------------------------------------------------------------------ *)
(* main of the example                                                 *)
(* ------------------------------------------------------------------ *)

\* if len(sys.argv) > 1:
main_check ==
    /\ prog = "example"
    /\ pc = "check"
    /\ pc' = IF Len(sys_argv) > 1 THEN "insert" ELSE "import"
    /\ UNCHANGED <<prog, sys_argv, sys_path, fs, exc, attempted, module, ret,
                   result, initial_argv, initial_path>>

\* bindings_dir = Path(sys.argv[1]).resolve()
\* sys.path.insert(0, str(bindings_dir))
main_insert ==
    /\ prog = "example"
    /\ pc = "insert"
    /\ sys_path' = InsertFront(sys_path, Resolve(sys_argv[2]))
    /\ pc' = "import"
    /\ UNCHANGED <<prog, sys_argv, fs, exc, attempted, module, ret, result,
                   initial_argv, initial_path>>

\* import uni20
main_import ==
    /\ prog = "example"
    /\ pc = "import"
    /\ attempted' = TRUE
    /\ LET found == FindModule(ModuleName(prog), sys_path, fs)
       IN  IF found = NoModule
           THEN /\ exc' = "ModuleNotFoundError"
                /\ pc' = "raised"
                /\ module' = module
           ELSE /\ exc' = exc
                /\ pc' = "print"
                /\ module' = found
    /\ UNCHANGED <<prog, sys_argv, sys_path, fs, ret, result, initial_argv,
                   initial_path>>

\* pprint.pp(uni20.buildinfo())
main_print ==
    /\ prog = "example"
    /\ pc = "print"
    /\ \E i \in Infos(LoadEdits - 1) : \E info \in {i} \cup InfoEdits(i) :
          /\ ret' = info
          /\ result' = [outcome |-> "printed", line |-> 22,
                        method |-> "pprint.pp", args |-> <<info>>]
    /\ pc' = "exit"
    /\ UNCHANGED <<prog, sys_argv, sys_path, fs, exc, attempted, module,
                   initial_argv, initial_path>>

Next ==
    \/ load_module_check
    \/ load_module_insert
    \/ load_module_truncate
    \/ load_module_import
    \/ uncaught
    \/ test_greet_returns_expected_message
    \/ test_buildinfo_reports_metadata
    \/ main_check
    \/ main_insert
    \/ main_import
    \/ main_print

Spec == Init /\ [][Next]_vars

(* ------------------------------------------------------------------ *)
(* The test body on its own: the binding is loaded, buildinfo() may    *)
(* return any value within MaxEdits of the well-formed one.            *)
(* ------------------------------------------------------------------ *)

InitInfo ==
    /\ prog = "test_buildinfo"
    /\ sys_argv = <<prog>>
    /\ sys_path = <<"/w/build", ScriptDir(prog), "/site">>
    /\ fs = [d \in Directories |-> IF d = "/w/build" THEN Modules ELSE {}]
    /\ pc = "tests"
    /\ exc = ""
    /\ attempted = TRUE
    /\ module = [name |-> "uni20", dir |-> "/w/build"]
    /\ ret = None
    /\ result = NotRun
    /\ initial_argv = <<prog, "build">>
    /\ initial_path = <<ScriptDir(prog), "/site">>

NextInfo == BuildInfoTest(MaxEdits)

SpecInfo == InitInfo /\ [][NextInfo]_vars

(* ------------------------------------------------------------------ *)
(* The BuildInfo contract, as the specification words it              *)
(* ------------------------------------------------------------------ *)

\* test_buildinfo_reports_metadata has run on ret and ended with result.
TestRan == prog = "test_buildinfo" /\ pc = "exit" /\ exc = ""

Accepted == result.outcome = "pass"

Rejected == result.outcome = "fail"

\* Key k is present, a string and non-empty.
FieldOK(info, k) ==
    /\ info.t = "dict"
    /\ k \in DOMAIN info.d
    /\ info.d[k].t = "str"
    /\ info.d[k].s # ""

\* Key c is present and a non-empty mapping.
CollectionOK(info, c) ==
    /\ info.t = "dict"
    /\ c \in DOMAIN info.d
    /\ info.d[c].t = "dict"
    /\ DOMAIN info.d[c].d # {}

NonEmptyStr(v) == v.t = "str" /\ v.s # ""

\* A mapping with a `value` string, where value is non-empty or help is
\* present and a non-empty string.
RecordOK(m) ==
    /\ m.t = "dict"
    /\ K("value") \in DOMAIN m.d
    /\ m.d[K("value")].t = "str"
    /\ \/ m.d[K("value")].s # ""
       \/ K("help") \in DOMAIN m.d /\ NonEmptyStr(m.d[K("help")])

\* help, when present, is a string.
HelpOK(m) ==
    m.t = "dict" /\ K("help") \in DOMAIN m.d => m.d[K("help")].t = "str"

CollectionKeys == {collections[1], collections[2]}

\* The collections of info that are mappings.
DictCollections(info) ==
    IF info.t # "dict" THEN {}
    ELSE {c \in CollectionKeys \cap DOMAIN info.d : info.d[c].t = "dict"}

\* The entry values of build_options and detected_environment.
Entries(info) ==
    UNION {{info.d[c].d[n] : n \in DOMAIN info.d[c].d} :
             c \in DictCollections(info)}

\* Everything but the records is as the contract asks.
TopOK(info) ==
    /\ \A k \in expected_keys : FieldOK(info, k)
    /\ \A c \in CollectionKeys :
          CollectionOK(info, c) /\ \A n \in DOMAIN info.d[c].d : n.t = "str"

(* ------------------------------------------------------------------ *)
(* C1                                                                  *)
(* ------------------------------------------------------------------ *)

\* C1: the test passes only if each of the eight required fields is
\* present, a string and non-empty; a value in which one of them is missing,
\* not a string or empty makes the test fail.
C1_RequiredFields ==
    TestRan =>
      /\ Accepted => \A k \in expected_keys : FieldOK(ret, k)
      /\ (\E k \in expected_keys : ~FieldOK(ret, k)) => Rejected

\* A run rejected at line 48: one required field is the empty string.
C1_Witness ==
    /\ TestRan
    /\ Rejected
    /\ result.line = 48
    /\ \E k \in expected_keys : In(k, ret) /\ ret.d[k] = Str("")

(* ------------------------------------------------------------------ *)
(* C2                                                                  *)
(* ------------------------------------------------------------------ *)

\* C2: the test passes only if every entry of build_options and
\* detected_environment is a mapping with a `value` string where value is
\* non-empty or help is a non-empty string; with the rest of the value in
\* order the test passes exactly when every entry is so; an entry whose
\* help is present and not a string is rejected whatever its value.
C2_Records ==
    TestRan =>
      /\ Accepted => \A m \in Entries(ret) : RecordOK(m) /\ HelpOK(m)
      /\ TopOK(ret) =>
           (Accepted <=> \A m \in Entries(ret) : RecordOK(m) /\ HelpOK(m))
      /\ (\E m \in Entries(ret) : ~HelpOK(m)) => Rejected

\* A run rejected at line 62: a record with a non-empty value whose help is
\* not a string.
C2_Witness ==
    /\ TestRan
    /\ Rejected
    /\ result.line = 62
    /\ \E m \in Entries(ret) :
          /\ m.t = "dict"
          /\ NonEmptyStr(Get(m, K("value")))
          /\ ~HelpOK(m)

(* ------------------------------------------------------------------ *)
(* C3                                                                  *)
(* ------------------------------------------------------------------ *)

\* C3: the test passes only if build_options and detected_environment are
\* both present and non-empty mappings; a value where either is missing,
\* not a mapping or empty makes the test fail.
C3_Collections ==
    TestRan =>
      /\ Accepted => \A c \in CollectionKeys : CollectionOK(ret, c)
      /\ (\E c \in CollectionKeys : ~CollectionOK(ret, c)) => Rejected

\* A run rejected at line 53: an empty detected_environment, all the rest
\* in order.
C3_Witness ==
    /\ TestRan
    /\ Rejected
    /\ result.line = 53
    /\ \A k \in expected_keys : FieldOK(ret, k)
    /\ CollectionOK(ret, collections[1])
    /\ \A m \in Entries(ret) : RecordOK(m) /\ HelpOK(m)
    /\ Get(ret, collections[2]) = EmptyDict


(* ------------------------------------------------------------------ *)
(* C5                                                                  *)
(* ------------------------------------------------------------------ *)

\* The ways one record departs from the contract, each as the set of keys
\* that would identify it: the option name n, or the field at fault.
RecordViolations(n, m) ==
    IF n.t # "str" \/ m.t # "dict" THEN {{n}}
    ELSE (IF In(K("value"), m) /\ m.d[K("value")].t = "str"
          THEN {} ELSE {{n, K("value")}})
         \cup (IF HelpOK(m) THEN {} ELSE {{n, K("help")}})
         \cup (IF /\ In(K("value"), m)
                  /\ m.d[K("value")] = Str("")
                  /\ HelpOK(m)
                  /\ ~NonEmptyStr(Get(m, K("help")))
               THEN {{n, K("value"), K("help")}} ELSE {})

\* The ways info departs from the contract.
Violations(info) ==
    IF info.t # "dict" THEN {{k} : k \in expected_keys \cup CollectionKeys}
    ELSE {{k} : k \in {x \in expected_keys : ~FieldOK(info, x)}}
         \cup {{c} : c \in {x \in CollectionKeys : ~CollectionOK(info, x)}}
         \cup UNION {UNION {RecordViolations(n, info.d[c].d[n]) :
                              n \in DOMAIN info.d[c].d} :
                       c \in DictCollections(info)}

\* C5 as stated: a single violation is surfaced as an assertion failure
\* whose message names the offending key or field.
C5_NamesOffendingKey ==
    TestRan /\ Cardinality(Violations(ret)) = 1 =>
      /\ Rejected
      /\ \A v \in Violations(ret) : v \cap MessageShows(result) # {}

\* The single violation of info is that key `missing` is absent from the
\* mapping `where`.
OnlyMissing(info, where, missing) ==
    /\ Cardinality(Violations(info)) = 1
    /\ where.t = "dict"
    /\ missing \notin DOMAIN where.d

\* C5, amended: every violation is surfaced as an assertion failure, never
\* as an error or a pass; the message names the offending key when the
\* single violation is a missing collection key, a missing `value` key of a
\* record, or an option name that is not a string.
C5_AssertionFailure ==
    TestRan =>
      /\ Violations(ret) # {} => Rejected
      /\ \A c \in CollectionKeys :
            OnlyMissing(ret, ret, c) => c \in MessageShows(result)
      /\ \A m \in Entries(ret) :
            TopOK(ret) /\ OnlyMissing(ret, m, K("value"))
               => K("value") \in MessageShows(result)
      /\ \A c \in DictCollections(ret) : \A n \in DOMAIN ret.d[c].d :
            Cardinality(Violations(ret)) = 1 /\ n.t # "str"
               => n \in MessageShows(result)

\* A run rejected because detected_environment is missing: the message of
\* assertIn shows the key.
C5_Witness ==
    /\ TestRan
    /\ Rejected
    /\ OnlyMissing(ret, ret, collections[2])
    /\ result.method = "assertIn"
    /\ collections[2] \in MessageShows(result)

(* ------------------------------------------------------------------ *)
(* C6                                                                  *)
(* ------------------------------------------------------------------ *)

\* Keys outside the contract, and values of every kind to put under them.
FurtherKeys == {K("uni20_version"), K("note"), K("extra"), Int5}

AnyValues == {Str(""), Str("x"), Int5, None, EmptyDict, BaseInfo}

\* info with key k := v added at top level.
WithTopKey(info, k, v) == DictSet(info, k, v)

\* info with key k := v added to the record of option n of collection c.
WithRecordKey(info, c, n, k, v) ==
    DictSet(info, c, DictSet(info.d[c], n, DictSet(info.d[c].d[n], k, v)))

\* C6: a BuildInfo the test accepts is still accepted with any further
\* top-level key, or any further key besides value and help in a record.
C6_AdditionalKeys ==
    TestRan /\ Accepted =>
      /\ \A k \in FurtherKeys \ DOMAIN ret.d : \A v \in AnyValues :
            TestResults(WithTopKey(ret, k, v)) = {Pass}
      /\ \A c \in CollectionKeys : \A n \in DOMAIN ret.d[c].d :
         \A k \in FurtherKeys \ DOMAIN ret.d[c].d[n].d : \A v \in AnyValues :
            TestResults(WithRecordKey(ret, c, n, k, v)) = {Pass}

\* An accepted BuildInfo that carries a further top-level key and a further
\* key in a record.
C6_Witness ==
    /\ TestRan
    /\ Accepted
    /\ In(K("uni20_version"), ret)
    /\ \E m \in Entries(ret) : In(K("note"), m)

(* ------------------------------------------------------------------ *)
(* C8                                                                  *)
(* ------------------------------------------------------------------ *)

\* test_greet_returns_expected_message has run on ret.
GreetRan == prog = "test_greet" /\ pc = "exit" /\ exc = ""

\* C8: the greet test passes if and only if greet() returned exactly
\* "Hello from uni20!"; any other value makes it fail.
C8_GreetLiteral ==
    GreetRan =>
      /\ Accepted <=> ret = [t |-> "str", s |-> "Hello from uni20!"]
      /\ ret # [t |-> "str", s |-> "Hello from uni20!"] => Rejected

\* A run rejected for a greeting that differs in case only.
C8_Witness ==
    /\ GreetRan
    /\ ret = Str("hello from uni20!")
    /\ Rejected

(* ------------------------------------------------------------------ *)
(* C4, C7, C9, C10: the loaders                                        *)
(* ------------------------------------------------------------------ *)

\* A directory argument was supplied.
DirGiven == Len(initial_argv) >= 2

\* The directory the argument resolves to.
GivenDir == Resolve(initial_argv[2])

\* C4 as stated: run with no argument, a test script ends with its tests
\* skipped, and the import was never attempted.
C4_SkippedNotErrored ==
    prog \in Tests /\ ~DirGiven /\ pc = "exit" =>
      result.outcome = "skip" /\ ~attempted

\* C7: with a directory argument the resolved directory is at index 0 of
\* the search path before the import is executed and from then on, so a
\* binding it holds is the one imported whatever else the path lists; the
\* example without an argument leaves the path as it was and still imports.
C7_PrependedBeforeImport ==
    /\ DirGiven /\ (pc = "import" \/ attempted) =>
         /\ sys_path[1] = GivenDir
         /\ sys_path = <<GivenDir>> \o initial_path
    /\ DirGiven /\ ~attempted => module = NoModule
    /\ DirGiven /\ attempted /\ ModuleName(prog) \in fs[GivenDir] =>
         module = [name |-> ModuleName(prog), dir |-> GivenDir]
    /\ prog = "example" /\ ~DirGiven =>
         /\ sys_path = initial_path
         /\ pc # "insert"
         /\ pc \in {"print", "raised", "exit"} => attempted

\* The binding is imported from the given directory although a directory
\* that was on the path already holds it too.
C7_Witness ==
    /\ DirGiven
    /\ attempted
    /\ module.dir = GivenDir
    /\ sys_path[1] = GivenDir
    /\ ModuleName(prog) \in fs["/site"]

\* The binding was imported from the directory given as argument.
LoadedFromGivenDir ==
    DirGiven /\ module # NoModule /\ module.dir = GivenDir

\* C9 as stated: the three scripts import the same module name, so a
\* directory that lets one of them load the binding lets all of them.
C9_SameModuleName ==
    LoadedFromGivenDir =>
      \A q \in Programs :
         ModuleName(q) = module.name /\ ModuleName(q) \in fs[GivenDir]

\* C9, amended: the buildinfo test and the example import the same module
\* name, so a directory that lets one of them load the binding lets the
\* other; the greet test imports another name.
C9_BuildinfoAndExample ==
    /\ LoadedFromGivenDir /\ prog \in {"test_buildinfo", "example"} =>
         \A q \in {"test_buildinfo", "example"} :
            ModuleName(q) = module.name /\ ModuleName(q) \in fs[GivenDir]
    /\ LoadedFromGivenDir /\ prog = "test_greet" =>
         \A q \in {"test_buildinfo", "example"} : ModuleName(q) # module.name

\* The buildinfo test loads the binding from a directory that does not hold
\* the module the greet test imports.
C9_Witness ==
    /\ prog = "test_buildinfo"
    /\ LoadedFromGivenDir
    /\ ModuleName("test_greet") \notin fs[GivenDir]

\* C10: in the test scripts, once _load_module is past its assignment of
\* sys.argv (before the import and whatever its outcome) sys.argv is
\* [argv[0]] and the search path is the old one with the resolved directory
\* at index 0; with no argument it raises SkipTest and leaves both alone.
C10_LoaderFrame ==
    prog \in Tests =>
      /\ DirGiven /\ pc \in {"import", "tests", "raised", "exit"} =>
           /\ sys_argv = <<initial_argv[1]>>
           /\ sys_path = <<GivenDir>> \o initial_path
      /\ ~DirGiven =>
           /\ sys_argv = initial_argv
           /\ sys_path = initial_path
           /\ ~attempted
           /\ pc # "check" => exc = "SkipTest"

\* The import failed after a directory and a further argument were given:
\* the argument list stays truncated.
C10_Witness ==
    /\ prog \in Tests
    /\ Len(initial_argv) = 3
    /\ exc = "ModuleNotFoundError"
    /\ sys_argv = <<initial_argv[1]>>
    /\ sys_path = <<GivenDir>> \o initial_path

=============================================================================
